---- MODULE Spec2Model ----
(***************************************************************************)
(* Tomato Shelf Life Predictor (src/app.py): a Streamlit script.  Every    *)
(* user interaction re-executes the script from its first line; the widget *)
(* values live in the session and survive the re-execution, everything     *)
(* else (input_dict, input_encoded, prediction, the elements on the page)  *)
(* is rebuilt by the run.  The model object is held by st.cache_resource.  *)
(* A run is followed to its end (last line, st.stop() or an uncaught       *)
(* exception) before the next interaction is taken.                        *)
(***************************************************************************)
EXTENDS Integers, Sequences, FiniteSets, TLC

(***************************************************************************)
(* Program constants                                                       *)
(***************************************************************************)
FEATURE_COLUMNS ==
    << "Maturity_Stage", "Temp_C", "Humidity_Pct", "Transport_KM",
       "Variety_Lanka Sour", "Variety_T-146", "Variety_T-245", "Variety_Thilina Tomato",
       "Packaging_Plastic Crate", "Packaging_Polysack Bag", "Packaging_Wooden Crate" >>

VARIETIES == << "Lanka Sour", "T-146", "T-245", "Thilina Tomato" >>

PACKAGING_TYPES == << "Plastic Crate", "Wooden Crate", "Polysack Bag" >>

\* widget ranges and defaults
MaturityMin == 1
MaturityMax == 6
MaturityDefault == 3
TransportMin == 0
TransportMax == 500
TransportDefault == 100
TempMin == 15
TempMax == 40
TempDefault == 25
HumidityMin == 40
HumidityMax == 95
HumidityDefault == 70

\* thresholds of the advisory rules
HighTemp == 28
CoolTemp == 20
HighHumidity == 80
LowHumidity == 60
RipeStage == 5
GreenStage == 2
LongTransport == 150

(***************************************************************************)
(* Bounds of the model                                                     *)
(***************************************************************************)
\* the widget values explored are the minimum, the maximum, the default and
\* every value within Margin of a rule threshold
Margin == 0

\* the values the opaque model may return (tenths of a day are not modelled)
MaxPrediction == 1

Abs(n) == IF n < 0 THEN -n ELSE n

Near(lo, hi, dflt, marks) ==
    { n \in lo..hi : \/ n \in {lo, hi, dflt}
                     \/ \E m \in marks : Abs(n - m) <= Margin }

\* what each widget can return
VarietyOptions == { VARIETIES[i] : i \in 1..Len(VARIETIES) }
PackagingOptions == { PACKAGING_TYPES[i] : i \in 1..Len(PACKAGING_TYPES) }
MaturityValues == MaturityMin..MaturityMax
TemperatureValues == Near(TempMin, TempMax, TempDefault, {HighTemp, CoolTemp})
HumidityValues == Near(HumidityMin, HumidityMax, HumidityDefault, {HighHumidity, LowHumidity})
TransportValues == Near(TransportMin, TransportMax, TransportDefault, {LongTransport})
PredictionValues == 0..MaxPrediction

\* the smaller value sets of the two-request specification
SeqVarieties == { VARIETIES[1], VARIETIES[2] }
SeqPackagings == { PACKAGING_TYPES[1], PACKAGING_TYPES[3] }
SeqMaturityValues == { MaturityDefault, MaturityMax }
SeqTemperatureValues == { TempMin, TempDefault, TempMax }
SeqHumidityValues == { HumidityDefault, HumidityMax }
SeqTransportValues == { TransportDefault, TransportMax }

Range(s) == { s[i] : i \in 1..Len(s) }

(***************************************************************************)
(* Python dict (insertion ordered) as a sequence of <<key, value>> pairs   *)
(***************************************************************************)
EmptyDict == << >>

Keys(d) == { d[i][1] : i \in 1..Len(d) }

Get(d, k) == d[CHOOSE i \in 1..Len(d) : d[i][1] = k][2]

\* d[k] = v : an existing key keeps its position, a new key goes last
Put(d, k, v) ==
    IF k \in Keys(d)
    THEN [i \in 1..Len(d) |-> IF d[i][1] = k THEN <<k, v>> ELSE d[i]]
    ELSE Append(d, <<k, v>>)

(***************************************************************************)
(* State                                                                   *)
(***************************************************************************)
VARIABLES
    variety, maturity_stage, packaging, transport_km, temperature, humidity,
    cached,         \* st.cache_resource holds the loaded model
    model_loaded,   \* "unset" until the try block has run, then "True" / "False"
    clicked,        \* what st.button returns in this run
    pc,             \* position of the script in this run
    input_dict,
    input_encoded,  \* the row of the DataFrame, << >> before it is built
    prediction,     \* << >> or <<value>>
    calls,          \* the calls of model.predict in this run, in order: the row
                    \* handed over and whether the call raised
    out,            \* the elements this run has put on the page, in order
    tracking,       \* history is recorded (two-request specification only)
    prev            \* << >> or <<the last finished prediction request>>

widgets == <<variety, maturity_stage, packaging, transport_km, temperature, humidity>>
run == <<model_loaded, clicked, pc, input_dict, input_encoded, prediction, calls, out>>
vars == <<widgets, cached, run, tracking, prev>>

Terminal == {"end", "stopped", "failed"}

Raw == [variety |-> variety, maturity_stage |-> maturity_stage,
        packaging |-> packaging, transport_km |-> transport_km,
        temperature |-> temperature, humidity |-> humidity]

\* the advisory elements among the elements on the page
AnnotationNames ==
    {"warning_high_temperature", "success_cool_temperature",
     "warning_high_humidity", "info_low_humidity",
     "warning_ripe", "success_less_mature", "warning_long_transport"}

Annotations(o) == SelectSeq(o, LAMBDA e : e \in AnnotationNames)

(***************************************************************************)
(* The script                                                              *)
(***************************************************************************)
\* (mutant) the run keeps what the run before it left behind
StaleRun(click) ==
    /\ model_loaded' = "unset"
    /\ clicked' = click
    /\ pc' = "load"
    /\ UNCHANGED <<input_dict, input_encoded, prediction, calls, out>>

\* a run starts with a fresh namespace and an empty page
FreshRun(click) ==
    /\ model_loaded' = "unset"
    /\ clicked' = click
    /\ pc' = "load"
    /\ input_dict' = EmptyDict
    /\ input_encoded' = << >>
    /\ prediction' = << >>
    /\ calls' = << >>
    /\ out' = << >>

\* history: the request that has just finished, if the run was one
Finished ==
    IF tracking /\ clicked /\ pc \in {"end", "failed"}
    THEN << [raw |-> Raw, served |-> pc = "end", vector |-> input_encoded,
             prediction |-> prediction, annotations |-> Annotations(out)] >>
    ELSE prev

Rerun(click) ==
    /\ pc \in Terminal
    /\ FreshRun(click)
    /\ prev' = Finished
    /\ UNCHANGED <<cached, tracking>>

Init ==
    /\ variety = VARIETIES[1]
    /\ maturity_stage = MaturityDefault
    /\ packaging = PACKAGING_TYPES[1]
    /\ transport_km = TransportDefault
    /\ temperature = TempDefault
    /\ humidity = HumidityDefault
    /\ cached = FALSE
    /\ model_loaded = "unset"
    /\ clicked = FALSE
    /\ pc = "load"
    /\ input_dict = EmptyDict
    /\ input_encoded = << >>
    /\ prediction = << >>
    /\ calls = << >>
    /\ out = << >>
    /\ tracking = FALSE
    /\ prev = << >>

\* ---- the user ----------------------------------------------------------
SelectVariety(v) ==
    /\ v # variety
    /\ variety' = v
    /\ Rerun(FALSE)
    /\ UNCHANGED <<maturity_stage, packaging, transport_km, temperature, humidity>>

SlideMaturity(m) ==
    /\ m # maturity_stage
    /\ maturity_stage' = m
    /\ Rerun(FALSE)
    /\ UNCHANGED <<variety, packaging, transport_km, temperature, humidity>>

SelectPackaging(p) ==
    /\ p # packaging
    /\ packaging' = p
    /\ Rerun(FALSE)
    /\ UNCHANGED <<variety, maturity_stage, transport_km, temperature, humidity>>

EnterTransport(k) ==
    /\ k # transport_km
    /\ transport_km' = k
    /\ Rerun(FALSE)
    /\ UNCHANGED <<variety, maturity_stage, packaging, temperature, humidity>>

SlideTemperature(t) ==
    /\ t # temperature
    /\ temperature' = t
    /\ Rerun(FALSE)
    /\ UNCHANGED <<variety, maturity_stage, packaging, transport_km, humidity>>

SlideHumidity(h) ==
    /\ h # humidity
    /\ humidity' = h
    /\ Rerun(FALSE)
    /\ UNCHANGED <<variety, maturity_stage, packaging, transport_km, temperature>>

ClickPredict ==
    /\ Rerun(TRUE)
    /\ UNCHANGED widgets

\* ---- the run -----------------------------------------------------------
\* load_model() returns: the cached object, or joblib.load succeeded
LoadModelOk ==
    /\ pc = "load"
    /\ cached' = TRUE
    /\ model_loaded' = "True"
    /\ pc' = "widgets"
    /\ UNCHANGED <<widgets, clicked, input_dict, input_encoded, prediction, calls,
                   out, tracking, prev>>

\* (mutant) the except branch without st.stop(): the script goes on
AfterLoadErrorNoStop == "widgets"

\* what the except branch does after st.error: st.stop() ends the run
AfterLoadError == "stopped"

\* load_model() raises (nothing is cached, joblib.load fails)
LoadModelFail ==
    /\ pc = "load"
    /\ ~cached
    /\ model_loaded' = "False"
    /\ out' = Append(out, "error_model_unavailable")
    /\ pc' = AfterLoadError
    /\ UNCHANGED <<widgets, cached, clicked, input_dict, input_encoded, prediction,
                   calls, tracking, prev>>

\* the widgets are drawn and st.button is evaluated
Button ==
    /\ pc = "widgets"
    /\ pc' = IF clicked THEN "input_dict" ELSE "end"
    /\ UNCHANGED <<widgets, cached, model_loaded, clicked, input_dict, input_encoded,
                   prediction, calls, out, tracking, prev>>

\* ---- the button handler ------------------------------------------------
OneHot(chosen, name) == IF chosen = name THEN 1 ELSE 0

\* input_dict = {'Maturity_Stage': ..., 'Temp_C': ..., 'Humidity_Pct': ..., 'Transport_KM': ...}
NumericDict(m, t, h, k) ==
    << <<"Maturity_Stage", m>>, <<"Temp_C", t>>, <<"Humidity_Pct", h>>, <<"Transport_KM", k>> >>

\* for name in names: d[f'{prefix}{name}'] = 1 if chosen == name else 0
RECURSIVE FillIndicators(_, _, _, _)
FillIndicators(d, prefix, names, chosen) ==
    IF names = << >>
    THEN d
    ELSE FillIndicators(Put(d, prefix \o Head(names), OneHot(chosen, Head(names))),
                        prefix, Tail(names), chosen)

PackagingLoop(d, p) == FillIndicators(d, "Packaging_", PACKAGING_TYPES, p)

\* (mutant) the variety loop tests the packaging
VarietyLoopByPackaging(d, v) == FillIndicators(d, "Variety_", VARIETIES, packaging)

VarietyLoop(d, v) == FillIndicators(d, "Variety_", VARIETIES, v)

\* pd.DataFrame([d]): one row, the columns in the dict's insertion order
DataFrame(d) == d

\* frame[columns]: the named columns in the order asked for; requires Keys
Columns(frame, columns) ==
    [i \in 1..Len(columns) |-> Get(frame, columns[i])]

\* (mutant) pd.DataFrame([input_dict]) without the column selection
EncodedInDictOrder(d) == [i \in 1..Len(d) |-> DataFrame(d)[i][2]]

\* pd.DataFrame([input_dict])[FEATURE_COLUMNS]
Encoded(d) == Columns(DataFrame(d), FEATURE_COLUMNS)

BuildInputDict ==
    /\ pc = "input_dict"
    /\ input_dict' = NumericDict(maturity_stage, temperature, humidity, transport_km)
    /\ pc' = "packaging_loop"
    /\ UNCHANGED <<widgets, cached, model_loaded, clicked, input_encoded, prediction,
                   calls, out, tracking, prev>>

EncodePackaging ==
    /\ pc = "packaging_loop"
    /\ input_dict' = PackagingLoop(input_dict, packaging)
    /\ pc' = "variety_loop"
    /\ UNCHANGED <<widgets, cached, model_loaded, clicked, input_encoded, prediction,
                   calls, out, tracking, prev>>

EncodeVariety ==
    /\ pc = "variety_loop"
    /\ input_dict' = VarietyLoop(input_dict, variety)
    /\ pc' = "frame"
    /\ UNCHANGED <<widgets, cached, model_loaded, clicked, input_encoded, prediction,
                   calls, out, tracking, prev>>

\* a column of FEATURE_COLUMNS missing from the frame is a KeyError
BuildFrame ==
    /\ pc = "frame"
    /\ IF Range(FEATURE_COLUMNS) \subseteq Keys(input_dict)
       THEN /\ input_encoded' = Encoded(input_dict)
            /\ pc' = "predict"
            /\ out' = out
       ELSE /\ input_encoded' = input_encoded
            /\ pc' = "failed"
            /\ out' = Append(out, "exception")
    /\ UNCHANGED <<widgets, cached, model_loaded, clicked, input_dict, prediction,
                   calls, tracking, prev>>

\* model.predict(input_encoded)[0] returns a value
PredictOk(v) ==
    /\ pc = "predict"
    /\ calls' = Append(calls, [row |-> input_encoded, raised |-> FALSE])
    /\ prediction' = <<v>>
    /\ pc' = "display"
    /\ UNCHANGED <<widgets, cached, model_loaded, clicked, input_dict, input_encoded,
                   out, tracking, prev>>

\* (mutant) the exception is swallowed and a placeholder is shown
AfterPredictErrorPlaceholder(o) == [pc |-> "display", prediction |-> <<0>>, out |-> o]

\* what an exception raised by model.predict leads to: nothing catches it,
\* the run ends and the page shows the exception
AfterPredictError(o) == [pc |-> "failed", prediction |-> << >>, out |-> Append(o, "exception")]

PredictFail ==
    /\ pc = "predict"
    /\ calls' = Append(calls, [row |-> input_encoded, raised |-> TRUE])
    /\ prediction' = AfterPredictError(out).prediction
    /\ pc' = AfterPredictError(out).pc
    /\ out' = AfterPredictError(out).out
    /\ UNCHANGED <<widgets, cached, model_loaded, clicked, input_dict, input_encoded,
                   tracking, prev>>

\* the prediction box, then the heading of the insights
DisplayResult ==
    /\ pc = "display"
    /\ out' = out \o << "prediction_box", "factors_heading" >>
    /\ pc' = "insight_temperature"
    /\ UNCHANGED <<widgets, cached, model_loaded, clicked, input_dict, input_encoded,
                   prediction, calls, tracking, prev>>

\* ---- the advisory rules ------------------------------------------------
\* (mutant) the high-temperature rule tests >= instead of >
TemperatureInsightInclusive(t) ==
    IF t >= HighTemp THEN << "warning_high_temperature" >>
    ELSE IF t < CoolTemp THEN << "success_cool_temperature" >>
    ELSE << >>

TemperatureInsight(t) ==
    IF t > HighTemp THEN << "warning_high_temperature" >>
    ELSE IF t < CoolTemp THEN << "success_cool_temperature" >>
    ELSE << >>

HumidityInsight(h) ==
    IF h > HighHumidity THEN << "warning_high_humidity" >>
    ELSE IF h < LowHumidity THEN << "info_low_humidity" >>
    ELSE << >>

\* (mutant) the ripeness warning is driven by a short predicted shelf life
MaturityInsightFromPrediction(m) ==
    IF m >= RipeStage \/ prediction = <<0>> THEN << "warning_ripe" >>
    ELSE IF m <= GreenStage THEN << "success_less_mature" >>
    ELSE << >>

MaturityInsight(m) ==
    IF m >= RipeStage THEN << "warning_ripe" >>
    ELSE IF m <= GreenStage THEN << "success_less_mature" >>
    ELSE << >>

TransportInsight(k) ==
    IF k > LongTransport THEN << "warning_long_transport" >> ELSE << >>

\* (mutant) the maturity rule is evaluated before the humidity rule
InsightStepsMaturityFirst ==
    << "insight_temperature", "insight_maturity", "insight_humidity",
       "insight_transport", "end" >>

\* the order in which the handler's steps follow the display of the result
InsightSteps ==
    << "insight_temperature", "insight_humidity", "insight_maturity",
       "insight_transport", "end" >>

After(step) == InsightSteps[(CHOOSE i \in 1..Len(InsightSteps) : InsightSteps[i] = step) + 1]

Insight(step, shown) ==
    /\ pc = step
    /\ out' = out \o shown
    /\ pc' = After(step)
    /\ UNCHANGED <<widgets, cached, model_loaded, clicked, input_dict, input_encoded,
                   prediction, calls, tracking, prev>>

InsightTemperature == Insight("insight_temperature", TemperatureInsight(temperature))

InsightHumidity == Insight("insight_humidity", HumidityInsight(humidity))

InsightMaturity == Insight("insight_maturity", MaturityInsight(maturity_stage))

InsightTransport == Insight("insight_transport", TransportInsight(transport_km))

(***************************************************************************)
(* Specifications                                                          *)
(***************************************************************************)
Script ==
    \/ LoadModelOk
    \/ LoadModelFail
    \/ Button
    \/ BuildInputDict
    \/ EncodePackaging
    \/ EncodeVariety
    \/ BuildFrame
    \/ \E v \in PredictionValues : PredictOk(v)
    \/ PredictFail
    \/ DisplayResult
    \/ InsightTemperature
    \/ InsightHumidity
    \/ InsightMaturity
    \/ InsightTransport

Next ==
    \/ \E v \in VarietyOptions : SelectVariety(v)
    \/ \E m \in MaturityValues : SlideMaturity(m)
    \/ \E p \in PackagingOptions : SelectPackaging(p)
    \/ \E k \in TransportValues : EnterTransport(k)
    \/ \E t \in TemperatureValues : SlideTemperature(t)
    \/ \E h \in HumidityValues : SlideHumidity(h)
    \/ ClickPredict
    \/ Script

Spec == Init /\ [][Next]_vars

\* two requests side by side: the last finished request is remembered
InitSeq ==
    /\ variety = VARIETIES[1]
    /\ maturity_stage = MaturityDefault
    /\ packaging = PACKAGING_TYPES[1]
    /\ transport_km = TransportDefault
    /\ temperature = TempDefault
    /\ humidity = HumidityDefault
    /\ cached = FALSE
    /\ model_loaded = "unset"
    /\ clicked = FALSE
    /\ pc = "load"
    /\ input_dict = EmptyDict
    /\ input_encoded = << >>
    /\ prediction = << >>
    /\ calls = << >>
    /\ out = << >>
    /\ tracking = TRUE
    /\ prev = << >>

NextSeq ==
    \/ \E v \in SeqVarieties : SelectVariety(v)
    \/ \E m \in SeqMaturityValues : SlideMaturity(m)
    \/ \E p \in SeqPackagings : SelectPackaging(p)
    \/ \E k \in SeqTransportValues : EnterTransport(k)
    \/ \E t \in SeqTemperatureValues : SlideTemperature(t)
    \/ \E h \in SeqHumidityValues : SlideHumidity(h)
    \/ ClickPredict
    \/ Script

SpecSeq == InitSeq /\ [][NextSeq]_vars

(***************************************************************************)
(* What the claims refer to, stated without the code's operators           *)
(***************************************************************************)
Is(a, b) == IF a = b THEN 1 ELSE 0

\* the 11 columns in the order of the schema
SchemaVector(r) ==
    << r.maturity_stage, r.temperature, r.humidity, r.transport_km,
       Is(r.variety, "Lanka Sour"), Is(r.variety, "T-146"),
       Is(r.variety, "T-245"), Is(r.variety, "Thilina Tomato"),
       Is(r.packaging, "Plastic Crate"), Is(r.packaging, "Polysack Bag"),
       Is(r.packaging, "Wooden Crate") >>

\* the condition of each advisory rule on the raw input
RuleHolds(name, r) ==
    CASE name = "warning_high_temperature" -> r.temperature > 28
      [] name = "success_cool_temperature" -> r.temperature < 20
      [] name = "warning_high_humidity" -> r.humidity > 80
      [] name = "info_low_humidity" -> r.humidity < 60
      [] name = "warning_ripe" -> r.maturity_stage >= 5
      [] name = "success_less_mature" -> r.maturity_stage <= 2
      [] name = "warning_long_transport" -> r.transport_km > 150

FiredRules(r) == { name \in AnnotationNames : RuleHolds(name, r) }

\* the stable display order: temperature, humidity, maturity, transport
Topic(name) ==
    CASE name \in {"warning_high_temperature", "success_cool_temperature"} -> 1
      [] name \in {"warning_high_humidity", "info_low_humidity"} -> 2
      [] name \in {"warning_ripe", "success_less_mature"} -> 3
      [] name = "warning_long_transport" -> 4

\* every row the run has built or handed to model.predict
Rows == { calls[i].row : i \in 1..Len(calls) } \cup ({input_encoded} \ {<< >>})

RequestServed == clicked /\ pc = "end"

\* the widgets hold nothing but what they offer: no reachable state has a
\* variety or packaging outside its list or a number outside its range
InputsAdmitted ==
    /\ variety \in {"Lanka Sour", "T-146", "T-245", "Thilina Tomato"}
    /\ packaging \in {"Plastic Crate", "Polysack Bag", "Wooden Crate"}
    /\ maturity_stage \in 1..6
    /\ temperature \in 15..40
    /\ humidity \in 40..95
    /\ transport_km \in 0..500

(***************************************************************************)
(* C1: every row built for a request and handed to model.predict has       *)
(* exactly 11 columns, the four raw numeric inputs unchanged followed by   *)
(* the variety indicators and the packaging indicators in schema order,    *)
(* whatever variety and packaging are chosen.                              *)
(***************************************************************************)
C1_SchemaOrder ==
    /\ \A row \in Rows : Len(row) = 11 /\ row = SchemaVector(Raw)
    /\ pc \in {"predict", "display"} => input_encoded = SchemaVector(Raw)

\* a row has been handed over whose packaging column is not where the
\* loop over PACKAGING_TYPES put it
C1_Witness ==
    /\ calls # << >>
    /\ packaging = "Wooden Crate"
    /\ variety = "T-245"
    /\ calls[1].row[11] = 1
    /\ calls[1].row[7] = 1

(***************************************************************************)
(* C2: in every row exactly one of the four variety indicators is 1 and    *)
(* the other three are 0, and exactly one of the three packaging           *)
(* indicators is 1 and the other two are 0.                                *)
(***************************************************************************)
C2_OneHot ==
    \A row \in Rows :
        /\ \A i \in 5..11 : row[i] \in {0, 1}
        /\ Cardinality({ i \in 5..8 : row[i] = 1 }) = 1
        /\ Cardinality({ i \in 9..11 : row[i] = 1 }) = 1

C2_Witness ==
    /\ calls # << >>
    /\ variety = "Thilina Tomato"
    /\ packaging = "Polysack Bag"
    /\ calls[1].row[8] = 1
    /\ calls[1].row[10] = 1

C5_NoModelNoInference ==
    model_loaded = "False" =>
        /\ pc = "stopped"
        /\ ~ ENABLED Script
        /\ input_dict = EmptyDict
        /\ input_encoded = << >>
        /\ calls = << >>
        /\ prediction = << >>
        /\ out = << "error_model_unavailable" >>

\* the failed load happened in a run started by the Predict button
C5_Witness == model_loaded = "False" /\ clicked /\ pc = "stopped"

(***************************************************************************)
(* C6: when model.predict raises, the run ends there with the exception    *)
(* as its outcome: model.predict was called once, is not called again,     *)
(* and no shelf-life value is shown.                                       *)
(***************************************************************************)
C6_PredictFailureEndsRequest ==
    (\E i \in 1..Len(calls) : calls[i].raised) =>
        /\ Len(calls) = 1
        /\ pc = "failed"
        /\ ~ ENABLED Script
        /\ prediction = << >>
        /\ "prediction_box" \notin Range(out)
        /\ out = << "exception" >>

C6_Witness == calls # << >> /\ calls[1].raised /\ pc = "failed"

(***************************************************************************)
(* C7 (as claimed): two requests with the same raw input show the same     *)
(* annotations whatever model.predict does for them, a raised exception    *)
(* included.                                                               *)
(***************************************************************************)
C7_SameAnnotationsWhateverPredictDoes ==
    (/\ clicked /\ pc \in {"end", "failed"} /\ calls # << >>
     /\ prev # << >> /\ prev[1].raw = Raw)
        => Annotations(out) = prev[1].annotations

(***************************************************************************)
(* C7 (amended): two requests with the same raw input for which            *)
(* model.predict returns show the same annotations whatever values it      *)
(* returns; a request for which model.predict raises shows no annotation.  *)
(***************************************************************************)
C7_SameAnnotationsWhateverValue ==
    /\ (/\ RequestServed
        /\ prev # << >> /\ prev[1].served /\ prev[1].raw = Raw)
           => Annotations(out) = prev[1].annotations
    /\ pc = "failed" => Annotations(out) = << >>

\* the same raw input served twice with different predicted values
C7_Witness ==
    /\ RequestServed
    /\ prev # << >> /\ prev[1].served /\ prev[1].raw = Raw
    /\ prev[1].prediction # prediction
    /\ Len(Annotations(out)) >= 2

(***************************************************************************)
(* C9: a run starts with nothing left from earlier requests, input_dict    *)
(* is created with the four numeric entries of the current input only,     *)
(* and after any earlier requests the row and the annotations of a served  *)
(* request are those of its own raw input (so equal inputs give equal      *)
(* rows).                                                                  *)
(***************************************************************************)
C9_RequestsIndependent ==
    /\ pc = "load" =>
          /\ input_dict = EmptyDict /\ input_encoded = << >>
          /\ prediction = << >> /\ calls = << >> /\ out = << >>
    /\ pc = "packaging_loop" =>
          /\ Len(input_dict) = 4
          /\ Keys(input_dict) = {"Maturity_Stage", "Temp_C", "Humidity_Pct", "Transport_KM"}
          /\ Get(input_dict, "Maturity_Stage") = maturity_stage
          /\ Get(input_dict, "Temp_C") = temperature
          /\ Get(input_dict, "Humidity_Pct") = humidity
          /\ Get(input_dict, "Transport_KM") = transport_km
    /\ (prev # << >> /\ RequestServed) =>
          /\ input_encoded = SchemaVector(Raw)
          /\ Range(Annotations(out)) = FiredRules(Raw)
          /\ (prev[1].served /\ prev[1].raw = Raw) => input_encoded = prev[1].vector

\* a request served after a served request with another variety, another
\* packaging and other annotations
C9_Witness ==
    /\ RequestServed
    /\ prev # << >> /\ prev[1].served
    /\ prev[1].raw.variety # variety
    /\ prev[1].raw.packaging # packaging
    /\ prev[1].annotations # << >>
    /\ prev[1].annotations # Annotations(out)

(***************************************************************************)
(* C10: within a request the row is built before model.predict is called,  *)
(* model.predict is called once, the prediction is shown after the call    *)
(* returned, no annotation is shown before the prediction, and the         *)
(* annotations shown follow the order temperature, humidity, maturity,     *)
(* transport distance.                                                     *)
(***************************************************************************)
C10_StepOrder ==
    /\ Len(calls) <= 1
    /\ calls # << >> => input_encoded # << >> /\ calls[1].row = input_encoded
    /\ "prediction_box" \in Range(out) =>
          Len(calls) = 1 /\ ~ calls[1].raised /\ prediction # << >>
    /\ \A i \in 1..Len(out) :
          out[i] \in AnnotationNames => \E j \in 1..(i - 1) : out[j] = "prediction_box"
    /\ \A i, j \in 1..Len(Annotations(out)) :
          i < j => Topic(Annotations(out)[i]) < Topic(Annotations(out)[j])
    /\ RequestServed => Len(calls) = 1 /\ out[1] = "prediction_box"

C10_Witness ==
    /\ RequestServed
    /\ temperature < 20 /\ humidity > 80 /\ maturity_stage >= 5 /\ transport_km > 150
    /\ Annotations(out) = << "success_cool_temperature", "warning_high_humidity",
                             "warning_ripe", "warning_long_transport" >>
====
